---- MODULE Spec2Model ----
(***************************************************************************)
(* A model of src/grad_eng.py: the scalar autograd engine `Value`.         *)
(*                                                                         *)
(* The heap of Value objects is the sequence `nodes`; a Value's identity   *)
(* is its index.  Floats are fixed-point integers in units of 1/Scale, so  *)
(* that sums and products of whole numbers are exact and the softmax and   *)
(* tanh results (which are never whole) are representable.                 *)
(***************************************************************************)
EXTENDS Integers, Sequences, FiniteSets, TLC

(***************************************************************************)
(* Bounds of the exploration.                                              *)
(***************************************************************************)
\* fixed-point resolution: the float 1.0 is the integer Scale
Scale == 100
\* Value objects on the heap, full engine
MaxNodes == 4
\* Value objects on the heap, add/multiply engine
MaxNodesAM == 5
\* largest |data| a constructed Value may hold, in whole units
MaxData == 12
\* calls of backward() after the graph is built, full engine
MaxCalls == 1
\* calls of backward() after the graph is built, add/multiply engine
MaxCallsAM == 2
\* longest input list handed to softmax
MaxSoftmax == 2

\* Value objects on the heap, softmax engine
MaxNodesSM == 5
\* Value objects on the heap after number - Value, which allocates four Values
MaxNodesRSub == 5

\* floats the driver hands to Value(...) and uses as plain numeric operands
LeafVals == {0, 2}
ConstVals == {3}
LeafValsAM == {2, 3}
ConstValsAM == {2, 3}
LeafValsSM == {2, 3}
\* exponents the driver hands to __pow__
PowExps == {-1, 0, 2}

(***************************************************************************)
(* Float arithmetic, fixed point, rounding toward zero.                    *)
(***************************************************************************)
Abs(x) == IF x < 0 THEN -x ELSE x

Sgn(x) == IF x < 0 THEN -1 ELSE 1

\* a * b
FMul(a, b) == Sgn(a) * Sgn(b) * ((Abs(a) * Abs(b)) \div Scale)

\* a / b, b # 0
FDiv(a, b) == Sgn(a) * Sgn(b) * ((Abs(a) * Scale) \div Abs(b))

RECURSIVE IPow(_, _)
\* the integer x^k, k >= 0
IPow(x, k) == IF k = 0 THEN 1 ELSE x * IPow(x, k - 1)

\* x ** e raises ZeroDivisionError
PowRaises(x, e) == x = 0 /\ e < 0

\* x ** e for an int e (x # 0 when e < 0); 0 ** 0 is 1
PowF(x, e) ==
    IF e = 0 THEN Scale
    ELSE IF e > 0
         THEN Sgn(IPow(x, e)) * (Abs(IPow(x, e)) \div IPow(Scale, e - 1))
         ELSE Sgn(IPow(x, -e)) * (IPow(Scale, 1 - e) \div Abs(IPow(x, -e)))

\* math.exp at 0, -1, -2, ..., in thousandths
ExpTab == <<1000, 368, 135, 50, 18, 7, 2, 0>>

\* math.tanh at 0, 1, 2, ..., in thousandths
TanhTab == <<0, 762, 964, 995, 999, 1000>>

\* piecewise-linear reading of a table of thousandths at x >= 0
Interp(tab, x) ==
    LET k == x \div Scale
        r == x % Scale
        v == IF k + 2 > Len(tab)
             THEN tab[Len(tab)]
             ELSE (tab[k + 1] * (Scale - r) + tab[k + 2] * r) \div Scale
    IN  (v * Scale) \div 1000

\* math.exp(d) for d <= 0
ExpF(d) == Interp(ExpTab, -d)

\* math.tanh(x)
TanhF(x) == Sgn(x) * Interp(TanhTab, Abs(x))

Max(a, b) == IF a >= b THEN a ELSE b

RECURSIVE SeqMax(_, _)
\* max(v.data for v in values), values non-empty
SeqMax(s, i) == IF i = Len(s) THEN s[i] ELSE Max(s[i], SeqMax(s, i + 1))

RECURSIVE SeqSum(_, _)
\* sum(...) from position i on
SeqSum(s, i) == IF i > Len(s) THEN 0 ELSE s[i] + SeqSum(s, i + 1)

RECURSIVE Reverse(_)
\* reversed(s)
Reverse(s) == IF s = <<>> THEN <<>> ELSE Append(Reverse(Tail(s)), Head(s))

Range(s) == {s[i] : i \in 1..Len(s)}

(***************************************************************************)
(* Value objects.  `prev` is the set _prev.  `bw` is the closure stored in *)
(* _backward with the variables it captured: the operands `a`, the         *)
(* exponent `e`, the tanh result `t` and the result node(s) `out`.         *)
(***************************************************************************)
NoErr == "none"

Closure(f, a, e, t, out) == [f |-> f, a |-> a, e |-> e, t |-> t, out |-> out]

\* lambda: None
NoOp == Closure("none", <<>>, 0, 0, <<>>)

\* Value(data, _children, _op)
ValueInit(data, children, op) ==
    [data |-> data, grad |-> 0, prev |-> Range(children), op |-> op, bw |-> NoOp]

\* an operand that is a Value (its index)
Ref(i) == [k |-> "node", v |-> i]

\* a float operand, fixed point
Num(c) == [k |-> "num", v |-> c]

\* an int operand (an exponent)
Expo(e) == [k |-> "num", v |-> e]

\* what a constructor returns: the heap, the new node(s), the exception raised
Res(ns, out, err) == [ns |-> ns, out |-> out, err |-> err]

\* other if isinstance(other, Value) else Value(other)
Promote(ns, other) ==
    IF other.k = "node"
    THEN [ns |-> ns, id |-> other.v]
    ELSE [ns |-> Append(ns, ValueInit(other.v, <<>>, "")), id |-> Len(ns) + 1]

\* Value.__add__
add(ns, self, other) ==
    LET p == Promote(ns, other)
        o == Len(p.ns) + 1
        v == [ValueInit(p.ns[self].data + p.ns[p.id].data, <<self, p.id>>, "+")
                EXCEPT !.bw = Closure("add", <<self, p.id>>, 0, 0, <<o>>)]
    IN  Res(Append(p.ns, v), <<o>>, NoErr)

\* Value.__mul__
mul(ns, self, other) ==
    LET p == Promote(ns, other)
        o == Len(p.ns) + 1
        v == [ValueInit(FMul(p.ns[self].data, p.ns[p.id].data), <<self, p.id>>, "*")
                EXCEPT !.bw = Closure("mul", <<self, p.id>>, 0, 0, <<o>>)]
    IN  Res(Append(p.ns, v), <<o>>, NoErr)

\* a __pow__ that builds its result node before it evaluates the power
pow_alloc(ns, self, exponent) ==
    LET o == Len(ns) + 1
        bad == exponent.k = "node" \/ PowRaises(ns[self].data, exponent.v)
        v == [ValueInit(IF bad THEN 0 ELSE PowF(ns[self].data, exponent.v), <<self>>, "**")
                EXCEPT !.bw = Closure("pow", <<self>>, IF bad THEN 0 ELSE exponent.v, 0, <<o>>)]
    IN  Res(Append(ns, v), <<o>>,
            IF exponent.k = "node" THEN "AssertionError"
            ELSE IF bad THEN "ZeroDivisionError" ELSE NoErr)

\* Value.__pow__
pow(ns, self, exponent) ==
    IF exponent.k = "node" THEN Res(ns, <<>>, "AssertionError")
    ELSE IF PowRaises(ns[self].data, exponent.v) THEN Res(ns, <<>>, "ZeroDivisionError")
    ELSE LET o == Len(ns) + 1
             v == [ValueInit(PowF(ns[self].data, exponent.v), <<self>>, "**")
                     EXCEPT !.bw = Closure("pow", <<self>>, exponent.v, 0, <<o>>)]
         IN  Res(Append(ns, v), <<o>>, NoErr)

\* Value.relu
relu(ns, self) ==
    LET o == Len(ns) + 1
        v == [ValueInit(Max(0, ns[self].data), <<self>>, "ReLU")
                EXCEPT !.bw = Closure("relu", <<self>>, 0, 0, <<o>>)]
    IN  Res(Append(ns, v), <<o>>, NoErr)

\* Value.tanh
tanh(ns, self) ==
    LET o == Len(ns) + 1
        t == TanhF(ns[self].data)
        v == [ValueInit(t, <<self>>, "tanh")
                EXCEPT !.bw = Closure("tanh", <<self>>, 0, t, <<o>>)]
    IN  Res(Append(ns, v), <<o>>, NoErr)

\* Value.softmax
softmax(ns, values) ==
    IF values = <<>> THEN Res(ns, <<>>, "ValueError")
    ELSE LET n == Len(values)
             max_val == SeqMax([i \in 1..n |-> ns[values[i]].data], 1)
             exps == [i \in 1..n |-> ExpF(ns[values[i]].data - max_val)]
             sum_exps == SeqSum(exps, 1)
             out == [i \in 1..n |-> Len(ns) + i]
             new == [i \in 1..n |->
                       [ValueInit(FDiv(exps[i], sum_exps), <<values[i]>>, "softmax")
                          EXCEPT !.bw = Closure("softmax", values, 0, 0, out)]]
         IN  Res(ns \o new, out, NoErr)

\* Value.__neg__
neg(ns, self) == mul(ns, self, Num(-Scale))

\* Value.__sub__
sub(ns, self, other) ==
    IF other.k = "node"
    THEN LET m == neg(ns, other.v) IN add(m.ns, self, Ref(m.out[1]))
    ELSE add(ns, self, Num(-other.v))

\* Value.__rsub__: other is a plain number
rsub(ns, self, other) ==
    LET m == neg(ns, self) IN add(m.ns, m.out[1], Num(other))

\* Value.__truediv__
truediv(ns, self, other) ==
    IF other.k = "node"
    THEN LET p == pow(ns, other.v, Expo(-1))
         IN  IF p.err # NoErr THEN p ELSE mul(p.ns, self, Ref(p.out[1]))
    ELSE IF PowRaises(other.v, -1) THEN Res(ns, <<>>, "ZeroDivisionError")
         ELSE mul(ns, self, Num(PowF(other.v, -1)))

\* Value.__rtruediv__: other is a plain number
rtruediv(ns, self, other) ==
    LET p == pow(ns, self, Expo(-1))
    IN  IF p.err # NoErr THEN p ELSE mul(p.ns, p.out[1], Num(other))

\* Value.__radd__
radd(ns, self, other) == add(ns, self, Num(other))

\* Value.__rmul__
rmul(ns, self, other) == mul(ns, self, Num(other))

(***************************************************************************)
(* The backward closures.  A closure's run returns the heap, the log `w`   *)
(* of the `+=` it made and the exception it raised.                        *)
(***************************************************************************)
\* target.grad = amt, an overwrite in place of the accumulation
AddGradSet(st, to, amt) ==
    [st EXCEPT !.ns = [st.ns EXCEPT ![to].grad = amt],
               !.w = Append(st.w, [to |-> to, amt |-> amt])]

\* target.grad += amt
AddGrad(st, to, amt) ==
    [st EXCEPT !.ns = [st.ns EXCEPT ![to].grad = @ + amt],
               !.w = Append(st.w, [to |-> to, amt |-> amt])]

RECURSIVE SoftmaxLoop(_, _, _)
\* the loops of softmax's backward(), pair p = (i, j) in row order
SoftmaxLoop(st, bw, p) ==
    LET n == Len(bw.a)
        i == ((p - 1) \div n) + 1
        j == ((p - 1) % n) + 1
        oi == st.ns[bw.out[i]]
        oj == st.ns[bw.out[j]]
    IN  IF p > n * n THEN st
        ELSE SoftmaxLoop(
                 AddGrad(st, bw.a[j],
                         IF i = j
                         THEN FMul(FMul(oi.grad, oi.data), Scale - oj.data)
                         ELSE FMul(FMul(-oi.grad, oi.data), oj.data)),
                 bw, p + 1)

\* calling a Value's _backward
Invoke(ns, bw) ==
    LET st == [ns |-> ns, w |-> <<>>, err |-> NoErr]
        self == bw.a[1]
        other == bw.a[2]
        g == ns[bw.out[1]].grad
    IN  CASE bw.f = "none" -> st
          [] bw.f = "add" -> AddGrad(AddGrad(st, self, g), other, g)
          [] bw.f = "mul" ->
                AddGrad(AddGrad(st, self, FMul(ns[other].data, g)),
                        other, FMul(ns[self].data, g))
          [] bw.f = "pow" ->
                IF PowRaises(ns[self].data, bw.e - 1)
                THEN [st EXCEPT !.err = "ZeroDivisionError"]
                ELSE AddGrad(st, self, FMul(bw.e * PowF(ns[self].data, bw.e - 1), g))
          [] bw.f = "relu" -> AddGrad(st, self, IF ns[self].data > 0 THEN g ELSE 0)
          [] bw.f = "tanh" -> AddGrad(st, self, FMul(Scale - FMul(bw.t, bw.t), g))
          [] bw.f = "softmax" -> SoftmaxLoop(st, bw, 1)


\* `for parent in v._prev` when flip picks the order the set iterates in
SetIter(prev, flip) ==
    IF prev = {} THEN <<>>
    ELSE LET lo == CHOOSE i \in prev : \A j \in prev : i <= j
             hi == CHOOSE i \in prev : \A j \in prev : i >= j
         IN  IF lo = hi THEN <<lo>> ELSE IF flip THEN <<hi, lo>> ELSE <<lo, hi>>

RECURSIVE build_topo_pre(_, _, _, _)
RECURSIVE VisitParentsPre(_, _, _, _, _)
\* a build_topo that appends v before it visits v's parents
build_topo_pre(ns, v, tv, ord) ==
    IF v \in tv.visited THEN tv
    ELSE VisitParentsPre(ns, SetIter(ns[v].prev, ord[v]), 1,
                         [topo |-> Append(tv.topo, v), visited |-> tv.visited \cup {v}], ord)

VisitParentsPre(ns, prev, i, tv, ord) ==
    IF i > Len(prev) THEN tv
    ELSE VisitParentsPre(ns, prev, i + 1, build_topo_pre(ns, prev[i], tv, ord), ord)

RECURSIVE build_topo(_, _, _, _)
RECURSIVE VisitParents(_, _, _, _, _)
\* build_topo(v) of Value.backward; tv is (topo, visited), ord[v] the order v._prev iterates in
build_topo(ns, v, tv, ord) ==
    IF v \in tv.visited THEN tv
    ELSE LET t1 == VisitParents(ns, SetIter(ns[v].prev, ord[v]), 1,
                                [tv EXCEPT !.visited = @ \cup {v}], ord)
         IN  [t1 EXCEPT !.topo = Append(@, v)]

\* for parent in v._prev: build_topo(parent)
VisitParents(ns, prev, i, tv, ord) ==
    IF i > Len(prev) THEN tv
    ELSE VisitParents(ns, prev, i + 1, build_topo(ns, prev[i], tv, ord), ord)

\* topo after build_topo(self)
Topo(ns, r, ord) == build_topo(ns, r, [topo |-> <<>>, visited |-> {}], ord).topo

\* a seed that also zeroes every other grad
SeedZero(ns, r) == [i \in 1..Len(ns) |-> [ns[i] EXCEPT !.grad = IF i = r THEN Scale ELSE 0]]

\* self.grad = 1.0
Seed(ns, r) == [ns EXCEPT ![r].grad = Scale]

RECURSIVE Replay(_, _, _)
\* for node in reversed(topo): node._backward(), from position i down; an exception ends it
Replay(ns, t, i) ==
    IF i = 0 THEN ns
    ELSE LET r == Invoke(ns, ns[t[i]].bw)
         IN  IF r.err # NoErr THEN ns ELSE Replay(r.ns, t, i - 1)

\* Value.backward as one call: the heap it leaves
backward(ns, r, ord) == Replay(Seed(ns, r), Topo(ns, r, ord), Len(Topo(ns, r, ord)))

\* the orders in which the sets _prev of a heap may iterate: one choice per two-element set
Orders(ns) ==
    {ord \in [1..Len(ns) -> BOOLEAN] :
        \A i \in 1..Len(ns) : Cardinality(ns[i].prev) < 2 => ~ord[i]}

(***************************************************************************)
(* The program state: the heap, the position of a running backward() call  *)
(* and the exception the last operation raised.  `calls`, `writes` and     *)
(* `grad0` record the running (or last) backward() call: the nodes whose   *)
(* _backward it invoked, the `+=` those made, and every grad at its start. *)
(***************************************************************************)
VARIABLES nodes, pc, root, topo, idx, err, calls, writes, grad0, ncalls

vars == <<nodes, pc, root, topo, idx, err, calls, writes, grad0, ncalls>>

Ids == 1..Len(nodes)

Raised(kind, at) == [kind |-> kind, at |-> at]

Quiet == Raised(NoErr, "none")

\* the operands the driver may hand to a binary operator
OperandsOf(consts) == {Ref(i) : i \in Ids} \cup {Num(c * Scale) : c \in consts}

Operands == OperandsOf(ConstVals)

InData(ns) == \A i \in 1..Len(ns) : Abs(ns[i].data) <= MaxData * Scale

Init ==
    /\ nodes = <<>>
    /\ pc = "idle"
    /\ root = 0
    /\ topo = <<>>
    /\ idx = 0
    /\ err = Quiet
    /\ calls = <<>>
    /\ writes = <<>>
    /\ grad0 = <<>>
    /\ ncalls = 0

\* the driver builds the graph first: it takes the result r of a constructor call
Construct(r, max) ==
    /\ pc = "idle"
    /\ ncalls = 0
    /\ Len(r.ns) <= max
    /\ InData(r.ns)
    /\ nodes' = r.ns
    /\ err' = IF r.err = NoErr THEN Quiet ELSE Raised(r.err, "construct")
    /\ UNCHANGED <<pc, root, topo, idx, calls, writes, grad0, ncalls>>

\* Value.backward up to the loop: the topological sort and the seed
Begin(r, ord, max) ==
    /\ pc = "idle"
    /\ ncalls < max
    /\ root' = r
    /\ topo' = Topo(nodes, r, ord)
    /\ nodes' = Seed(nodes, r)
    /\ idx' = Len(Topo(nodes, r, ord))
    /\ pc' = "loop"
    /\ err' = Quiet
    /\ calls' = <<>>
    /\ writes' = <<>>
    /\ grad0' = [i \in Ids |-> nodes[i].grad]
    /\ ncalls' = ncalls + 1

\* one iteration of `for node in reversed(topo): node._backward()`
BackwardStep ==
    /\ pc = "loop"
    /\ LET node == topo[idx]
           r == Invoke(nodes, nodes[node].bw)
       IN  /\ calls' = Append(calls, node)
           /\ nodes' = r.ns
           /\ writes' = writes \o [k \in 1..Len(r.w) |->
                                     [at |-> Len(calls) + 1, by |-> node,
                                      to |-> r.w[k].to, amt |-> r.w[k].amt]]
           /\ err' = IF r.err = NoErr THEN Quiet ELSE Raised(r.err, "backward")
           /\ pc' = IF r.err # NoErr \/ idx = 1 THEN "idle" ELSE "loop"
           /\ idx' = idx - 1
    /\ UNCHANGED <<root, topo, grad0, ncalls>>

(***************************************************************************)
(* The full engine: every constructor, then backward() from any node.      *)
(***************************************************************************)
NewValue == \E v \in LeafVals : Construct(Res(Promote(nodes, Num(v * Scale)).ns, <<>>, NoErr), MaxNodes)

Add == \E self \in Ids, other \in Operands : Construct(add(nodes, self, other), MaxNodes)

Mul == \E self \in Ids, other \in Operands : Construct(mul(nodes, self, other), MaxNodes)

Pow == \E self \in Ids, exponent \in {Expo(e) : e \in PowExps} \cup {Ref(i) : i \in Ids} :
           Construct(pow(nodes, self, exponent), MaxNodes)

Relu == \E self \in Ids : Construct(relu(nodes, self), MaxNodes)

Tanh == \E self \in Ids : Construct(tanh(nodes, self), MaxNodes)

Softmax == \E n \in 0..MaxSoftmax : \E values \in [1..n -> Ids] :
               Construct(softmax(nodes, values), MaxNodes)

Neg == \E self \in Ids : Construct(neg(nodes, self), MaxNodes)

Sub == \E self \in Ids, other \in Operands : Construct(sub(nodes, self, other), MaxNodes)

RSub == \E self \in Ids, other \in ConstVals : Construct(rsub(nodes, self, other * Scale), MaxNodesRSub)

TrueDiv == \E self \in Ids, other \in Operands \cup {Num(0)} :
               Construct(truediv(nodes, self, other), MaxNodes)

RTrueDiv == \E self \in Ids, other \in ConstVals :
                Construct(rtruediv(nodes, self, other * Scale), MaxNodes)

RAdd == \E self \in Ids, other \in ConstVals : Construct(radd(nodes, self, other * Scale), MaxNodes)

RMul == \E self \in Ids, other \in ConstVals : Construct(rmul(nodes, self, other * Scale), MaxNodes)

Backward == \E r \in Ids, ord \in Orders(nodes) : Begin(r, ord, MaxCalls)

Next ==
    \/ NewValue \/ Add \/ Mul \/ Pow \/ Relu \/ Tanh \/ Softmax
    \/ Neg \/ Sub \/ RSub \/ TrueDiv \/ RTrueDiv \/ RAdd \/ RMul
    \/ Backward \/ BackwardStep

Spec == Init /\ [][Next]_vars

(***************************************************************************)
(* The add/multiply engine: Value, +, * and unary minus, with Value or     *)
(* plain-number operands on either side, then backward() from the node     *)
(* built last.  Every heap of fewer nodes is a state too, so that every    *)
(* graph and root within the bound is covered.                             *)
(***************************************************************************)
NewValueAM == \E v \in LeafValsAM : Construct(Res(Promote(nodes, Num(v * Scale)).ns, <<>>, NoErr), MaxNodesAM)

AddAM == \E self \in Ids, other \in OperandsOf(ConstValsAM) :
             Construct(add(nodes, self, other), MaxNodesAM)

MulAM == \E self \in Ids, other \in OperandsOf(ConstValsAM) :
             Construct(mul(nodes, self, other), MaxNodesAM)

RAddAM == \E self \in Ids, other \in ConstValsAM : Construct(radd(nodes, self, other * Scale), MaxNodesAM)

RMulAM == \E self \in Ids, other \in ConstValsAM : Construct(rmul(nodes, self, other * Scale), MaxNodesAM)

NegAM == \E self \in Ids : Construct(neg(nodes, self), MaxNodesAM)

BackwardAM == \E ord \in Orders(nodes) : nodes # <<>> /\ Begin(Len(nodes), ord, MaxCallsAM)

NextAM ==
    \/ NewValueAM \/ AddAM \/ MulAM \/ RAddAM \/ RMulAM \/ NegAM
    \/ BackwardAM \/ BackwardStep

SpecAM == Init /\ [][NextAM]_vars

(***************************************************************************)
(* The softmax engine: Value, * and softmax, then backward() from the node *)
(* built last.                                                             *)
(***************************************************************************)
NewValueSM == \E v \in LeafValsSM : Construct(Res(Promote(nodes, Num(v * Scale)).ns, <<>>, NoErr), MaxNodesSM)

MulSM == \E self \in Ids, other \in Ids : Construct(mul(nodes, self, Ref(other)), MaxNodesSM)

SoftmaxSM == \E n \in 1..MaxSoftmax : \E values \in [1..n -> Ids] :
                 Construct(softmax(nodes, values), MaxNodesSM)

BackwardSM == \E ord \in Orders(nodes) : nodes # <<>> /\ Begin(Len(nodes), ord, MaxCalls)

NextSM == NewValueSM \/ MulSM \/ SoftmaxSM \/ BackwardSM \/ BackwardStep

SpecSM == Init /\ [][NextSM]_vars

(***************************************************************************)
(* Vocabulary of the properties.                                           *)
(***************************************************************************)
\* a backward() call has returned normally
Done == pc = "idle" /\ ncalls >= 1 /\ err = Quiet

\* a backward() call is running or has ended
Called == ncalls >= 1

RECURSIVE Sum(_, _)
\* the sum of f over the finite set S
Sum(f, S) ==
    IF S = {} THEN 0
    ELSE LET x == CHOOSE y \in S : TRUE IN f[x] + Sum(f, S \ {x})

\* d c / d n of one + or * node c: one term per operand slot that holds n
Local(ns, c, n) ==
    LET bw == ns[c].bw
    IN  IF bw.f = "add"
        THEN (IF bw.a[1] = n THEN Scale ELSE 0) + (IF bw.a[2] = n THEN Scale ELSE 0)
        ELSE IF bw.f = "mul"
        THEN (IF bw.a[1] = n THEN ns[bw.a[2]].data ELSE 0)
             + (IF bw.a[2] = n THEN ns[bw.a[1]].data ELSE 0)
        ELSE 0

RECURSIVE Deriv(_, _, _)
\* d r / d n: the sum over the operand paths from r to n of the products of the
\* local derivatives
Deriv(ns, r, n) ==
    IF n = r THEN Scale
    ELSE IF n > r THEN 0
    ELSE Sum([c \in (n + 1)..r |-> FMul(Local(ns, c, n), Deriv(ns, r, c))], (n + 1)..r)

RECURSIVE Reach(_, _)
\* the nodes reachable from v through parent links
Reach(ns, v) == {v} \cup UNION {Reach(ns, p) : p \in ns[v].prev}

RECURSIVE Paths(_, _, _)
\* the number of distinct parent-link paths from v to n
Paths(ns, v, n) ==
    IF v = n THEN 1
    ELSE Sum([p \in ns[v].prev |-> Paths(ns, p, n)], ns[v].prev)

\* the identity of the closure in node i's _backward: softmax outputs share one
StepKey(i) == IF nodes[i].bw.f = "softmax" THEN nodes[i].bw.out[1] ELSE i

\* how often the running (or last) backward() call invoked the closure of node i
Invocations(i) == Cardinality({k \in 1..Len(calls) : StepKey(calls[k]) = StepKey(i)})

\* the `+=` the running (or last) backward() call made into node n
Contributions(n) ==
    Sum([k \in 1..Len(writes) |-> IF writes[k].to = n THEN writes[k].amt ELSE 0],
        1..Len(writes))

Leaf(i) == nodes[i].bw.f = "none"

\* node c was built as op(x, y)
Built(c, f, x, y) == nodes[c].bw.f = f /\ nodes[c].bw.a = <<x, y>>

(***************************************************************************)
(* C1.  On a graph of leaves, + and * whose grads are all 0, backward(root)*)
(* leaves root.grad = 1 and in every node the derivative of root by that   *)
(* node (the sum over the operand paths of the products of the local       *)
(* derivatives); y = x + x gives x.grad = 2; c = a*b + a with a = 2, b = 3 *)
(* gives c = 8, a.grad = 4, b.grad = 2.                                    *)
(***************************************************************************)
C1_Gradients ==
    (Done /\ \A i \in Ids : grad0[i] = 0) =>
        /\ nodes[root].grad = Scale
        /\ \A n \in Ids : nodes[n].grad = Deriv(nodes, root, n)
        /\ \A x \in Ids : (Leaf(x) /\ Built(root, "add", x, x)) => nodes[x].grad = 2 * Scale
        /\ \A a, b, m \in Ids :
              ( /\ Leaf(a) /\ nodes[a].data = 2 * Scale
                /\ Leaf(b) /\ nodes[b].data = 3 * Scale
                /\ Built(m, "mul", a, b) /\ Built(root, "add", m, a) ) =>
              /\ nodes[root].data = 8 * Scale
              /\ nodes[a].grad = 4 * Scale
              /\ nodes[b].grad = 2 * Scale

\* c = a*b + a has been differentiated from zero grads
C1_Witness ==
    /\ Done /\ \A i \in Ids : grad0[i] = 0
    /\ \E a, b, m \in Ids :
          /\ Leaf(a) /\ nodes[a].data = 2 * Scale
          /\ Leaf(b) /\ nodes[b].data = 3 * Scale
          /\ Built(m, "mul", a, b) /\ Built(root, "add", m, a)
          /\ nodes[root].data = 8 * Scale
          /\ nodes[a].grad = 4 * Scale

(***************************************************************************)
(* C10.  backward(root) overwrites root.grad with 1 and resets no other    *)
(* grad: after the call every other grad is its grad before the call plus  *)
(* the contributions of the call.  A second backward(root) on the same     *)
(* graph therefore leaves root.grad = 1 and, where every data of the graph *)
(* is positive, every ancestor's grad larger than after the first call;    *)
(* x leaf, m = x*2, r = m*3 gives x.grad = 6, then 18.                     *)
(***************************************************************************)
AllPositive == \A i \in Ids : nodes[i].data > 0

\* the graph is x, m = x*2, r = m*3 with r the root
Chain23(x, m) ==
    /\ Leaf(x)
    /\ \E c2, c3 \in Ids :
          /\ Leaf(c2) /\ nodes[c2].data = 2 * Scale /\ c2 # x
          /\ Leaf(c3) /\ nodes[c3].data = 3 * Scale /\ c3 # x
          /\ Built(m, "mul", x, c2) /\ Built(root, "mul", m, c3)

\* C10 (amended): a call adds its contributions to the grads it finds; 6 then 18 on the positive chain
C10_Accumulates ==
    Done =>
        /\ nodes[root].grad = Scale
        /\ \A n \in Ids \ {root} : nodes[n].grad = grad0[n] + Contributions(n)
        /\ (ncalls = 2 /\ AllPositive) =>
              \A n \in Range(topo) \ {root} : nodes[n].grad > grad0[n]
        /\ \A x, m \in Ids : Chain23(x, m) =>
              nodes[x].grad = (IF ncalls = 1 THEN 6 ELSE 18) * Scale

\* the second backward(r) on x, m = x*2, r = m*3 has returned
C10_Witness ==
    /\ Done /\ ncalls = 2
    /\ \E x, m \in Ids : Chain23(x, m) /\ grad0[x] = 6 * Scale /\ nodes[x].grad = 18 * Scale

\* C10 as stated: after the second call every ancestor's grad is larger than after the first
C10_Original ==
    (Done /\ ncalls = 2) =>
        /\ nodes[root].grad = Scale
        /\ \A n \in Range(topo) \ {root} : nodes[n].grad > grad0[n]

(***************************************************************************)
(* C2.  In one backward(root) the closure shared by the outputs of one     *)
(* softmax call is invoked exactly once, however many of those outputs     *)
(* root reaches.                                                           *)
(***************************************************************************)
C2_SharedStepOnce ==
    Done => \A n \in Range(topo) : nodes[n].bw.f = "softmax" => Invocations(n) = 1

(***************************************************************************)
(* C3.  A node that root reaches by two or more distinct paths is appended *)
(* to the traversal order exactly once and its backward closure is invoked *)
(* exactly once by backward(root).                                         *)
(***************************************************************************)
C3_DiamondOnce ==
    Called =>
        \A n \in Range(topo) : Paths(nodes, root, n) >= 2 =>
            /\ Cardinality({i \in 1..Len(topo) : topo[i] = n}) = 1
            /\ Done => Invocations(n) = 1

(***************************************************************************)
(* C4.  No exception is raised during backward(): every failure is raised  *)
(* by the constructor call, so backward(root) on a graph that was built    *)
(* returns normally.                                                       *)
(***************************************************************************)
C4_NoBackwardError == err.at # "backward"

(***************************************************************************)
(* C5.  A failing construction (a Value as exponent, a divisor Value or    *)
(* number that is 0, softmax of the empty list) raises its exception and   *)
(* leaves the heap as it was: no node changed, no node added.              *)
(***************************************************************************)
Failed(r, kind) == r.err = kind /\ r.ns = nodes

C5_FailuresNow ==
    (pc = "idle" /\ ncalls = 0) =>
        /\ \A self, e \in Ids : Failed(pow(nodes, self, Ref(e)), "AssertionError")
        /\ \A self, d \in Ids : nodes[d].data = 0 =>
              /\ Failed(truediv(nodes, self, Ref(d)), "ZeroDivisionError")
              /\ Failed(rtruediv(nodes, d, Scale), "ZeroDivisionError")
        /\ \A self \in Ids : Failed(truediv(nodes, self, Num(0)), "ZeroDivisionError")
        /\ Failed(softmax(nodes, <<>>), "ValueError")

\* C5: a failing construction raises its exception and leaves the heap unchanged
C5_FailureLeavesHeap ==
    /\ []C5_FailuresNow
    /\ [][err'.at = "construct" => nodes' = nodes]_vars

\* a division by a zero-valued Value has just failed
C5_Witness ==
    /\ err = Raised("ZeroDivisionError", "construct")
    /\ \E d \in Ids : nodes[d].data = 0

(***************************************************************************)
(* C6.  backward(root) is deterministic: the grads it leaves do not depend *)
(* on the order in which the sets _prev iterate.                           *)
(***************************************************************************)
Grads(ns) == [i \in 1..Len(ns) |-> ns[i].grad]

\* C6: the grads left by backward(root) are the same for every iteration order of the sets
C6_OrderIndependent ==
    (pc = "idle" /\ ncalls = 0) =>
        \A r \in Ids : \A o1, o2 \in Orders(nodes) :
            Grads(backward(nodes, r, o1)) = Grads(backward(nodes, r, o2))

C8_NoLateWrite ==
    \A k \in 1..Len(writes) : \A j \in 1..(writes[k].at - 1) : calls[j] # writes[k].to

(***************************************************************************)
(* C9.  A node's parents are exactly its operands and its closure adds     *)
(* only into the grads of its parents; hence every grad written during     *)
(* backward(root) belongs to a node of the traversal order.                *)
(***************************************************************************)
\* the operands node n was built from; output i of a softmax call from input i
OperandsOfNode(n) ==
    LET bw == nodes[n].bw
    IN  IF bw.f = "softmax"
        THEN {bw.a[i] : i \in {k \in 1..Len(bw.out) : bw.out[k] = n}}
        ELSE Range(bw.a)

\* C9: parents are the operands, and the closures write only grads of parents, all in the order
C9_ParentsOnly ==
    /\ \A n \in Ids : nodes[n].prev = OperandsOfNode(n)
    /\ \A k \in 1..Len(writes) : writes[k].to \in nodes[writes[k].by].prev
    /\ \A k \in 1..Len(writes) : writes[k].to \in Range(topo)

====
